---- MODULE Spec2Model ----
(***************************************************************************)
(* The declaration assembler of cargo-ohrs (cli/cargo-ohrs/src/build/ts.rs) *)
(* as a state machine: generate_d_ts_file reads the intermediate type file, *)
(* sorts the records, merges impl blocks into their structs, renders the    *)
(* namespace groups, runs the substitution and header pass and writes       *)
(* index.d.ts.                                                              *)
(*                                                                          *)
(* Strings are sequences of tokens.  A token is a TLA+ string standing for  *)
(* an indivisible run of characters that is either made of word characters  *)
(* only ("Buffer", "export") or of non-word characters only (" ", "{").     *)
(* Concatenation is \o, is_empty is comparison with << >>.                  *)
(***************************************************************************)
EXTENDS Integers, Sequences, FiniteSets, TLC

VARIABLES
  tmp_file,             \* the file at TYPE_DEF_TMP_PATH: [exists, lines]
  pc,                   \* position inside generate_d_ts_file
  line_no,              \* lines of tmp_file consumed by the reader
  defs,                 \* Vec<TypeDefLine> of read_intermediate_type_file
  def_no,               \* records consumed by the loop of preprocess_type_def
  namespace_grouped,    \* HashMap<String, Vec<TypeDefLine>>
  class_defs,           \* HashMap<String, (String, TypeDefLine)>
  flushed,              \* keys of class_defs already visited by the final iter()
  sorted_grouped_defs,  \* Vec<(String, Vec<TypeDefLine>)>, sorted by key
  group_no,             \* groups consumed by the loop of process_type_def
  dts,                  \* the body text
  exports,              \* the export list
  dest,                 \* index.d.ts: [written, content]
  runs,                 \* builds started on this tmp_file
  prev,                 \* what the previous build computed
  src,                  \* correct_string_indent: the lines of its argument
  indent,               \* correct_string_indent: its indent argument
  bracket_depth,        \* correct_string_indent: the depth counter
  src_no,               \* correct_string_indent: lines consumed
  result,               \* correct_string_indent: the text built so far
  body,                 \* substitution pass: the body handed to the first pass
  caller_header,        \* substitution pass: the caller's header
  passes                \* substitution pass: the text after each application

vars == <<tmp_file, pc, line_no, defs, def_no, namespace_grouped, class_defs,
          flushed, sorted_grouped_defs, group_no, dts, exports, dest, runs,
          prev, src, indent, bracket_depth, src_no, result, body,
          caller_header, passes>>

asm_vars == <<tmp_file, pc, line_no, defs, def_no, namespace_grouped,
              class_defs, flushed, sorted_grouped_defs, group_no, dts,
              exports, dest, runs, prev>>

indent_vars == <<src, indent, bracket_depth, src_no, result>>

subst_vars == <<body, caller_header, passes>>

---------------------------------------------------------------------------
(* Bounds of the model.                                                    *)

MaxLines == 3

MaxExportLines == 2

MaxReadLines == 3

MaxRuns == 2

MaxSrcLines == 3

MaxBodyLen == 3

---------------------------------------------------------------------------
(* Strings.                                                                *)

None == "<None>"

Min(a, b) == IF a < b THEN a ELSE b

\* Tokens made of non-word characters; every other token is made of word
\* characters ([0-9A-Za-z_]) only.
NonWordTokens ==
  {" ", "\n", "{", "}", "<", ">", ":", ";", ",", "=", "(", ")", "[", "]",
   "|", "*", "/**", "*/", "/*", "''", "-", "{bad", "tail}"}

IsWord(tok) == tok \notin NonWordTokens

IsWhitespace(tok) == tok \in {" ", "\n"}

\* The bytes of the strings that are compared with String::cmp.
Bytes(s) ==
  CASE s = "A" -> <<65>>
    [] s = "B" -> <<66>>
    [] s = "N" -> <<78>>
    [] s = "n" -> <<110>>
    [] s = "__TOP_LEVEL_MODULE__" ->
         <<95, 95, 84, 79, 80, 95, 76, 69, 86, 69, 76, 95,
           77, 79, 68, 85, 76, 69, 95, 95>>

\* Ord::cmp on byte strings: lexicographic.
BytesLess(a, b) ==
  \E k \in 0..Min(Len(a), Len(b)) :
    /\ \A i \in 1..k : a[i] = b[i]
    /\ \/ k = Len(a) /\ k < Len(b)
       \/ k < Len(a) /\ k < Len(b) /\ a[k + 1] < b[k + 1]

StrCmp(a, b) ==
  IF BytesLess(Bytes(a), Bytes(b)) THEN "Less"
  ELSE IF BytesLess(Bytes(b), Bytes(a)) THEN "Greater"
  ELSE "Equal"

\* str::trim on a token string.
RECURSIVE TrimStart(_)
TrimStart(t) ==
  IF t # << >> /\ IsWhitespace(t[1]) THEN TrimStart(Tail(t)) ELSE t

RECURSIVE TrimEnd(_)
TrimEnd(t) ==
  IF t # << >> /\ IsWhitespace(t[Len(t)])
  THEN TrimEnd(SubSeq(t, 1, Len(t) - 1))
  ELSE t

Trim(t) == TrimEnd(TrimStart(t))

\* Index of the first occurrence of tok in t, 0 when there is none.
Find(t, tok) ==
  IF \E i \in 1..Len(t) : t[i] = tok
  THEN CHOOSE i \in 1..Len(t) :
         t[i] = tok /\ \A j \in 1..(i - 1) : t[j] # tok
  ELSE 0

\* str::lines: the pieces between "\n", a final empty piece dropped.
RECURSIVE Lines(_)
Lines(t) ==
  IF t = << >> THEN << >>
  ELSE LET i == Find(t, "\n")
       IN IF i = 0 THEN <<t>>
          ELSE <<SubSeq(t, 1, i - 1)>> \o Lines(SubSeq(t, i + 1, Len(t)))

\* str::split(sep): the pieces between sep, empty pieces kept.
RECURSIVE Split(_, _)
Split(t, sep) ==
  LET i == Find(t, sep)
  IN IF i = 0 THEN <<t>>
     ELSE <<SubSeq(t, 1, i - 1)>> \o Split(SubSeq(t, i + 1, Len(t)), sep)

\* " ".repeat(n)
Spaces(n) == [i \in 1..n |-> " "]

RECURSIVE Flatten(_)
Flatten(ss) == IF ss = << >> THEN << >> ELSE Head(ss) \o Flatten(Tail(ss))

---------------------------------------------------------------------------
(* TypeDefKind and TypeDefLine.                                            *)

TypeDefKind ==
  {"Const", "Enum", "Interface", "Fn", "Struct", "Impl", "StringEnum"}

\* js_doc is read through unwrap_or_default only, so None is the empty text.
TypeDefLine(kind, name, original_name, def, js_doc, js_mod) ==
  [kind |-> kind, name |-> name, original_name |-> original_name,
   def |-> def, js_doc |-> js_doc, js_mod |-> js_mod]

TOP_LEVEL_NAMESPACE == "__TOP_LEVEL_MODULE__"

DEFAULT_TYPE_DEF_HEADER ==
  <<"/*", " ", "auto", "-", "generated", " ", "by", " ", "OHOS", "-", "RS",
    " ", "*/", "\n",
    "/*", " ", "eslint", "-", "disable", " ", "*/", "\n", "\n">>

---------------------------------------------------------------------------
(* read_intermediate_type_file.                                            *)
(* A line of the file is [io_ok, pre, json]: the text pre followed by the   *)
(* JSON encoding of the record json (NoJson: no JSON object on the line).   *)
(* io_ok = FALSE is a line BufRead::lines yields as Err.                    *)

NoJson == [kind |-> None]

RawLine(pre, json) == [io_ok |-> TRUE, pre |-> pre, json |-> json]

UnreadableLine == [io_ok |-> FALSE, pre |-> << >>, json |-> NoJson]

\* json_line.trim()
TrimLine(l) ==
  IF l.json = NoJson THEN [l EXCEPT !.pre = Trim(l.pre)]
  ELSE [l EXCEPT !.pre = TrimStart(l.pre)]

LineIsEmpty(l) == l.pre = << >> /\ l.json = NoJson

\* format_line.starts_with('{')
StartsWithBrace(l) ==
  IF l.pre = << >> THEN l.json # NoJson ELSE l.pre[1] \in {"{", "{bad"}

\* Lines 58-64: a line that does not start with '{' loses everything up to
\* and including its first ':'.  The JSON object holds ':' itself, so when
\* pre has none the cut falls inside the object and leaves its tail.
FormatLine(raw) ==
  LET l == TrimLine(raw)
  IN IF StartsWithBrace(l) THEN l
     ELSE LET i == Find(l.pre, ":")
          IN IF i # 0
               THEN [l EXCEPT !.pre = SubSeq(l.pre, i + 1, Len(l.pre))]
             ELSE IF l.json # NoJson
               THEN [l EXCEPT !.pre = <<"tail}">>, !.json = NoJson]
             ELSE l

\* serde_json::from_str::<TypeDefLine>: whitespace, one object, whitespace.
DecodeOk(l) == l.json # NoJson /\ TrimStart(l.pre) = << >>

\* One iteration of the loop of lines 53-70 on the records read so far:
\* the records after it, and whether the unwrap of line 66 panicked.
ReadLineSkipUndecodable(raw, acc) ==
  IF ~raw.io_ok THEN [panic |-> FALSE, defs |-> acc]
  ELSE LET format_line == FormatLine(raw)
       IN IF LineIsEmpty(format_line) \/ ~DecodeOk(format_line)
            THEN [panic |-> FALSE, defs |-> acc]
          ELSE [panic |-> FALSE, defs |-> Append(acc, format_line.json)]

ReadLine(raw, acc) ==
  IF ~raw.io_ok THEN [panic |-> FALSE, defs |-> acc]
  ELSE LET format_line == FormatLine(raw)
       IN IF LineIsEmpty(format_line) THEN [panic |-> FALSE, defs |-> acc]
          ELSE IF ~DecodeOk(format_line) THEN [panic |-> TRUE, defs |-> acc]
          ELSE [panic |-> FALSE, defs |-> Append(acc, format_line.json)]

\* The comparator of lines 72-77.
CompareDefs(a, b) ==
  CASE a.kind = "Struct" /\ b.kind = "Struct" -> StrCmp(a.name, b.name)
    [] a.kind = "Struct" /\ b.kind # "Struct" -> "Less"
    [] a.kind # "Struct" /\ b.kind = "Struct" -> "Greater"
    [] OTHER -> StrCmp(a.name, b.name)

\* sort_unstable_by: the result is a permutation in comparator order; the
\* order of records that compare Equal is not specified.
SortUnstable(v) ==
  {w \in {[i \in 1..Len(v) |-> v[p[i]]] : p \in Permutations(1..Len(v))} :
     \A i \in 1..Len(w) : \A j \in (i + 1)..Len(w) :
       CompareDefs(w[i], w[j]) # "Greater"}

---------------------------------------------------------------------------
(* preprocess_type_def.  A HashMap is a function on its set of keys.       *)

EmptyMap == [k \in {} |-> k]

MapPut(m, k, v) == [x \in DOMAIN m \cup {k} |-> IF x = k THEN v ELSE m[x]]

NamespaceOf(def) ==
  IF def.js_mod = None THEN TOP_LEVEL_NAMESPACE ELSE def.js_mod

\* Lines 207-214 on the side-table entry found for an impl record.
MergeImpl(class_def, def) ==
  [class_def EXCEPT
     !.t.def = (IF @ # << >> THEN @ \o <<"\n">> ELSE @) \o def.def]

\* One iteration of the loop of lines 192-219.
PreprocessDef(grouped, classes, def) ==
  LET namespace == NamespaceOf(def)
      entered == IF namespace \in DOMAIN grouped THEN grouped
                 ELSE MapPut(grouped, namespace, << >>)
  IN CASE def.kind = "Struct" ->
            [namespace_grouped |-> entered,
             class_defs |-> MapPut(classes, def.name,
                                   [n |-> namespace, t |-> def])]
       [] def.kind = "Impl" ->
            [namespace_grouped |-> entered,
             class_defs |->
               IF def.name \in DOMAIN classes
               THEN [classes EXCEPT ![def.name] = MergeImpl(@, def)]
               ELSE classes]
       [] OTHER ->
            [namespace_grouped |->
               [entered EXCEPT ![namespace] = Append(@, def)],
             class_defs |-> classes]

\* The body of the closure of lines 221-224 for one entry of class_defs.
FlushClassDef(grouped, class_def) ==
  [grouped EXCEPT ![class_def.n] = Append(@, class_def.t)]

---------------------------------------------------------------------------
(* correct_string_indent.                                                  *)

StartsWithStar(line) == line[1] \in {"*", "*/"}

EndsWithClosingBracket(line) == line[Len(line)] \in {"}", "tail}"}

EndsWithOpeningBracket(line) == line[Len(line)] = "{"

\* One iteration of the loop of lines 299-328: the depth and the text after
\* the line raw_line.
IndentLine(depth, text, raw_line, base) ==
  LET line == Trim(raw_line)
  IN IF line = << >>
       THEN [bracket_depth |-> depth, result |-> text \o <<"\n">>]
     ELSE
       LET is_in_multiline_comment == StartsWithStar(line)
           is_closing_bracket == EndsWithClosingBracket(line)
           is_opening_bracket == EndsWithOpeningBracket(line)
           opens == is_opening_bracket /\ ~is_in_multiline_comment
           new_depth ==
             IF opens THEN depth + 1
             ELSE IF is_closing_bracket /\ depth > 0
                     /\ ~is_in_multiline_comment
               THEN depth - 1
             ELSE depth
           right_indent ==
             IF opens THEN base + (new_depth - 1) * 2
             ELSE base + new_depth * 2
           indented_line ==
             IF is_in_multiline_comment
             THEN Spaces(right_indent + 1) \o <<" ">> \o line
             ELSE Spaces(right_indent) \o line
       IN [bracket_depth |-> new_depth,
           result |-> text \o indented_line \o <<"\n">>]

RECURSIVE IndentLines(_, _, _, _)
IndentLines(depth, text, lines, base) ==
  IF lines = << >> THEN text
  ELSE LET st == IndentLine(depth, text, Head(lines), base)
       IN IndentLines(st.bracket_depth, st.result, Tail(lines), base)

correct_string_indent(s, base) == IndentLines(0, << >>, Lines(s), base)

---------------------------------------------------------------------------
(* pretty_print.                                                           *)

export_declare(ambient) ==
  IF ambient THEN <<"export">> ELSE <<"export", " ", "declare">>

Block(def) == <<" ", "{", "\n">> \o def \o <<"\n", "}">>

RECURSIVE JoinWith(_, _)
JoinWith(pieces, sep) ==
  IF Len(pieces) <= 1 THEN Flatten(pieces)
  ELSE Head(pieces) \o sep \o JoinWith(Tail(pieces), sep)

\* Lines 264-268; indexing [1] of the split panics when def holds no '='.
StringEnumUnion(def) ==
  LET parts == Split(def, "=")
  IN IF Len(parts) < 2 THEN <<"<panic>">>
     ELSE JoinWith([i \in 1..Len(Split(parts[2], ",")) |->
                      Trim(Split(parts[2], ",")[i])],
                   <<" ", "|", " ">>)

pretty_print(line, const_enum, base, ambient) ==
  LET s ==
        line.js_doc \o
        CASE line.kind = "Interface" ->
               <<"export", " ", "interface", " ", line.name>>
                 \o Block(line.def)
          [] line.kind = "Enum" ->
               export_declare(ambient) \o <<" ">>
                 \o (IF const_enum THEN <<"const", " ", "enum">>
                     ELSE <<"enum">>)
                 \o <<" ", line.name>> \o Block(line.def)
          [] line.kind = "StringEnum" ->
               IF const_enum
               THEN export_declare(ambient)
                      \o <<" ", "const", " ", "enum", " ", line.name>>
                      \o Block(line.def)
               ELSE <<"export", " ", "type", " ", line.name, " ", "=", " ">>
                      \o StringEnumUnion(line.def) \o <<";">>
          [] line.kind = "Struct" ->
               export_declare(ambient) \o <<" ", "class", " ", line.name>>
                 \o Block(line.def)
                 \o (IF line.original_name # None
                        /\ line.original_name # line.name
                     THEN <<"\n", "export", " ", "type", " ",
                            line.original_name, " ", "=", " ", line.name>>
                     ELSE << >>)
          [] line.kind = "Fn" ->
               export_declare(ambient) \o <<" ">> \o line.def
          [] OTHER -> line.def
  IN correct_string_indent(s, base)

---------------------------------------------------------------------------
(* process_type_def.                                                       *)

\* The keys of a map in ascending String order (sort_by_key, line 96).
RECURSIVE SortedKeys(_)
SortedKeys(keys) ==
  IF keys = {} THEN << >>
  ELSE LET least == CHOOSE k \in keys :
                      \A o \in keys : StrCmp(k, o) # "Greater"
       IN <<least>> \o SortedKeys(keys \ {least})

DrainSorted(grouped) ==
  LET keys == SortedKeys(DOMAIN grouped)
  IN [i \in 1..Len(keys) |->
        [namespace |-> keys[i], defs |-> grouped[keys[i]]]]

\* Lines 103-117: what a top-level record adds to exports.
ExportsOfDefAllKinds(def) ==
  <<def.name>> \o
    (IF def.original_name # None /\ def.original_name # def.name
     THEN <<def.original_name>> ELSE << >>)

ExportsOfDef(def) ==
  IF def.kind \in {"Const", "Enum", "Fn", "Struct", "StringEnum"}
  THEN <<def.name>> \o
         (IF def.original_name # None /\ def.original_name # def.name
          THEN <<def.original_name>> ELSE << >>)
  ELSE << >>

RECURSIVE PrintDefs(_, _, _, _)
PrintDefs(ds, const_enum, base, ambient) ==
  IF ds = << >> THEN << >>
  ELSE pretty_print(Head(ds), const_enum, base, ambient) \o <<"\n">>
         \o PrintDefs(Tail(ds), const_enum, base, ambient)

RECURSIVE ExportsOfDefs(_)
ExportsOfDefs(ds) ==
  IF ds = << >> THEN << >>
  ELSE ExportsOfDef(Head(ds)) \o ExportsOfDefs(Tail(ds))

\* One iteration of the loop of lines 98-128: what the group adds to dts
\* and to exports.
RenderGroup(group, const_enum) ==
  IF group.namespace = TOP_LEVEL_NAMESPACE
  THEN [dts |-> PrintDefs(group.defs, const_enum, 0, FALSE),
        exports |-> ExportsOfDefs(group.defs)]
  ELSE [dts |-> <<"export", " ", "namespace", " ", group.namespace,
                  " ", "{", "\n">>
                  \o PrintDefs(group.defs, const_enum, 2, TRUE)
                  \o <<"}", "\n">>,
        exports |-> <<group.namespace>>]

\* \bword\b matches the token at i.
WordAt(t, i, word) ==
  /\ t[i] = word
  /\ i = 1 \/ ~IsWord(t[i - 1])
  /\ i = Len(t) \/ ~IsWord(t[i + 1])

IsMatch(t, word) == \E i \in 1..Len(t) : WordAt(t, i, word)

\* Regex::replace_all(dts, "ArrayBuffer")
ReplaceFirstBuffer(t) ==
  [i \in 1..Len(t) |->
     IF WordAt(t, i, "Buffer") /\ \A j \in 1..(i - 1) : ~WordAt(t, j, "Buffer")
     THEN "ArrayBuffer" ELSE t[i]]

ReplaceAllBuffer(t) ==
  [i \in 1..Len(t) |-> IF WordAt(t, i, "Buffer") THEN "ArrayBuffer" ELSE t[i]]

\* dts.contains("ExternalObject<")
ContainsExternalObject(t) ==
  \E i \in 1..(Len(t) - 1) : t[i] = "ExternalObject" /\ t[i + 1] = "<"

\* super::abort_tmp::ABORT_TS, a fragment of another file of the crate.
ABORT_TS == <<"<ABORT_TS>">>

EXTERNAL_OBJECT_CLASS ==
  <<"\n",
    "export", " ", "class", " ", "ExternalObject", "<", "T", ">", " ", "{",
    "\n",
    " ", " ", "readonly", " ", "''", ":", " ", "{", "\n",
    " ", " ", " ", " ", "readonly", " ", "''", ":", " ", "unique", " ",
    "symbol", "\n",
    " ", " ", " ", " ", "[", "K", ":", " ", "symbol", "]", ":", " ", "T",
    "\n",
    " ", " ", "}", "\n",
    "}", "\n">>

\* Lines 130-182: the substitution and header pass on the body text.
SubstituteAndPrepend(text, hdr) ==
  LET buffer == IsMatch(text, "Buffer")
      replaced == IF buffer THEN ReplaceAllBuffer(text) ELSE text
      abort == IsMatch(replaced, "AbortSignal")
      has_import == buffer \/ abort
      header == hdr
                  \o (IF abort THEN ABORT_TS ELSE << >>)
                  \o (IF has_import THEN <<"\n", "\n">> ELSE << >>)
                  \o (IF ContainsExternalObject(replaced)
                      THEN EXTERNAL_OBJECT_CLASS ELSE << >>)
  IN header \o replaced

---------------------------------------------------------------------------
(* The inputs.                                                             *)

SeqsUpTo(S, n) == UNION {[1..k -> S] : k \in 0..n}

FilesOver(lines, n) ==
  {[exists |-> FALSE, lines |-> << >>]}
    \cup {[exists |-> TRUE, lines |-> l] : l \in SeqsUpTo(lines, n)}

\* A line with no ':' and no JSON object on it.
UndecodableLine == RawLine(<<"cargo">>, NoJson)

DefOfKind(kind) ==
  CASE kind = "Fn" -> <<"f", "(", ")">>
    [] kind = "Const" -> <<"c">>
    [] kind = "Struct" -> << >>
    [] OTHER -> <<"v">>

\* Records of structs, impl blocks and functions, for the merger.
MergeRecords ==
  {TypeDefLine("Struct", n, None, d, << >>, m) :
     n \in {"A", "B"}, d \in {<< >>, <<"s">>}, m \in {None, "N"}}
  \cup {TypeDefLine("Impl", n, None, d, << >>, m) :
     n \in {"A", "B"}, d \in {<<"x">>, <<"y">>}, m \in {None, "N"}}
  \cup {TypeDefLine("Fn", n, None, DefOfKind("Fn"), << >>, m) :
     n \in {"A", "B"}, m \in {None, "N"}}

MergeLines ==
  {RawLine(<< >>, r) : r \in MergeRecords} \cup {UndecodableLine}

\* (name, original_name, js_mod): no original name, one equal to the name,
\* one that differs, and the latter inside a namespace.
ExportShapes ==
  {<<"A", None, None>>, <<"A", "A", None>>, <<"B", "A", None>>,
   <<"B", "A", "N">>}

\* Records of every kind in each of these shapes.
ExportRecords ==
  {TypeDefLine(k, sh[1], sh[2], DefOfKind(k), << >>, sh[3]) :
     k \in TypeDefKind, sh \in ExportShapes}

ExportLines ==
  {RawLine(<< >>, r) : r \in ExportRecords} \cup {UndecodableLine}

\* Records at top level and in namespaces whose names sort on both sides
\* of the top-level key.
NamespaceRecords ==
  {TypeDefLine(k, "A", None, DefOfKind(k), << >>, m) :
     k \in {"Fn", "Struct", "Impl"}, m \in {None, "N", "n"}}

NamespaceLines ==
  {RawLine(<< >>, r) : r \in NamespaceRecords} \cup {UndecodableLine}

\* Every shape of line the reader tells apart, around two records.
ReadRecords ==
  {TypeDefLine("Fn", "A", None, DefOfKind("Fn"), << >>, None),
   TypeDefLine("Struct", "B", None, << >>, << >>, None)}

ReadLines ==
  {RawLine(pre, r) :
     pre \in {<< >>, <<" ">>, <<"cargo", ":">>, <<"cargo">>},
     r \in ReadRecords}
  \cup {RawLine(pre, NoJson) :
     pre \in {<< >>, <<" ">>, <<"cargo", ":">>, <<"cargo">>, <<"{bad">>}}
  \cup {UnreadableLine}

ExtraHeaders == {<< >>, <<"/*", " ", "banner", " ", "*/", "\n">>}

IndentInputLines ==
  {<< >>, <<"x">>, <<" ", " ", "x">>, <<"x", " ", "{">>, <<"}">>,
   <<"/**">>, <<"*", " ", "x">>, <<"*", " ", "{">>, <<"*/">>}

IndentBases == {0, 2}

SubstTokens ==
  {"Buffer", "ArrayBuffer", "AbortSignal", "ExternalObject", "<", " ", "x"}

CallerHeaders == {<< >>, <<"/*", " ", "banner", " ", "*/", "\n">>}

---------------------------------------------------------------------------
(* generate_d_ts_file as a state machine.                                  *)

NoPrev == [ran |-> FALSE, sorted |-> << >>, dts |-> << >>, exports |-> << >>]

NotWritten == [written |-> FALSE, content |-> << >>]

AsmIdle ==
  /\ pc = "idle" /\ tmp_file = [exists |-> FALSE, lines |-> << >>]
  /\ line_no = 0 /\ defs = << >> /\ def_no = 0
  /\ namespace_grouped = EmptyMap /\ class_defs = EmptyMap /\ flushed = {}
  /\ sorted_grouped_defs = << >> /\ group_no = 0
  /\ dts = << >> /\ exports = << >> /\ dest = NotWritten
  /\ runs = 0 /\ prev = NoPrev

IndentIdle ==
  /\ src = << >> /\ indent = 0 /\ bracket_depth = 0 /\ src_no = 0
  /\ result = << >>

SubstIdle == body = << >> /\ caller_header = << >> /\ passes = << >>

InitAsm(files) ==
  /\ tmp_file \in files
  /\ pc = "start"
  /\ line_no = 0 /\ defs = << >> /\ def_no = 0
  /\ namespace_grouped = EmptyMap /\ class_defs = EmptyMap /\ flushed = {}
  /\ sorted_grouped_defs = << >> /\ group_no = 0
  /\ dts = << >> /\ exports = << >> /\ dest = NotWritten
  /\ runs = 1 /\ prev = NoPrev
  /\ IndentIdle /\ SubstIdle

\* Lines 333-337.
Start ==
  /\ pc = "start"
  /\ \E env_set \in BOOLEAN :
       \/ /\ ~env_set
          /\ pc' = "env_err"
       \/ /\ env_set /\ ~tmp_file.exists
          /\ pc' = "skipped"
       \/ /\ env_set /\ tmp_file.exists
          /\ pc' = "read"
  /\ UNCHANGED <<tmp_file, line_no, defs, def_no, namespace_grouped,
                 class_defs, flushed, sorted_grouped_defs, group_no, dts,
                 exports, dest, runs, prev>>
  /\ UNCHANGED <<indent_vars, subst_vars>>

\* Lines 53-70, one line of the file.
ReadNextLine ==
  /\ pc = "read" /\ line_no < Len(tmp_file.lines)
  /\ LET r == ReadLine(tmp_file.lines[line_no + 1], defs)
     IN \/ /\ r.panic
           /\ pc' = "panicked"
           /\ UNCHANGED <<line_no, defs>>
        \/ /\ ~r.panic
           /\ defs' = r.defs
           /\ line_no' = line_no + 1
           /\ pc' = "read"
  /\ UNCHANGED <<tmp_file, def_no, namespace_grouped, class_defs, flushed,
                 sorted_grouped_defs, group_no, dts, exports, dest, runs,
                 prev>>
  /\ UNCHANGED <<indent_vars, subst_vars>>

\* Lines 72-78.  The sort is a function of its input: a later build of the
\* same file leaves equal records in the order the earlier one did.
SortDefs ==
  /\ pc = "read" /\ line_no = Len(tmp_file.lines)
  /\ defs' \in SortUnstable(defs)
  /\ prev.ran => defs' = prev.sorted
  /\ pc' = "preprocess"
  /\ def_no' = 0
  /\ namespace_grouped' = EmptyMap /\ class_defs' = EmptyMap
  /\ UNCHANGED <<tmp_file, line_no, flushed, sorted_grouped_defs, group_no,
                 dts, exports, dest, runs, prev>>
  /\ UNCHANGED <<indent_vars, subst_vars>>

\* Lines 192-219, one record.
PreprocessNextDef ==
  /\ pc = "preprocess" /\ def_no < Len(defs)
  /\ LET st == PreprocessDef(namespace_grouped, class_defs, defs[def_no + 1])
     IN /\ namespace_grouped' = st.namespace_grouped
        /\ class_defs' = st.class_defs
  /\ def_no' = def_no + 1
  /\ UNCHANGED <<tmp_file, pc, line_no, defs, flushed, sorted_grouped_defs,
                 group_no, dts, exports, dest, runs, prev>>
  /\ UNCHANGED <<indent_vars, subst_vars>>

\* Lines 221-224, one entry: HashMap::iter visits the entries in an order
\* that differs from one map and one process to the next.
FlushNextClassDef ==
  /\ pc = "preprocess" /\ def_no = Len(defs)
  /\ \E name \in DOMAIN class_defs \ flushed :
       /\ namespace_grouped' = FlushClassDef(namespace_grouped, class_defs[name])
       /\ flushed' = flushed \cup {name}
  /\ UNCHANGED <<tmp_file, pc, line_no, defs, def_no, class_defs,
                 sorted_grouped_defs, group_no, dts, exports, dest, runs,
                 prev>>
  /\ UNCHANGED <<indent_vars, subst_vars>>

\* Lines 226 and 91-96.
DrainAndSortGroups ==
  /\ pc = "preprocess" /\ def_no = Len(defs) /\ flushed = DOMAIN class_defs
  /\ sorted_grouped_defs' = DrainSorted(namespace_grouped)
  /\ namespace_grouped' = EmptyMap /\ class_defs' = EmptyMap /\ flushed' = {}
  /\ group_no' = 0
  /\ dts' = << >> /\ exports' = << >>
  /\ pc' = "render"
  /\ UNCHANGED <<tmp_file, line_no, defs, def_no, dest, runs, prev>>
  /\ UNCHANGED <<indent_vars, subst_vars>>

\* Lines 98-128, one group; generate_d_ts_file passes const_enum = true.
RenderNextGroup ==
  /\ pc = "render" /\ group_no < Len(sorted_grouped_defs)
  /\ LET out == RenderGroup(sorted_grouped_defs[group_no + 1], TRUE)
     IN /\ dts' = dts \o out.dts
        /\ exports' = exports \o out.exports
  /\ group_no' = group_no + 1
  /\ UNCHANGED <<tmp_file, pc, line_no, defs, def_no, namespace_grouped,
                 class_defs, flushed, sorted_grouped_defs, dest, runs, prev>>
  /\ UNCHANGED <<indent_vars, subst_vars>>

\* Lines 130-184; generate_d_ts_file passes header = "".
Substitute ==
  /\ pc = "render" /\ group_no = Len(sorted_grouped_defs)
  /\ dts' = SubstituteAndPrepend(dts, << >>)
  /\ pc' = "write"
  /\ UNCHANGED <<tmp_file, line_no, defs, def_no, namespace_grouped,
                 class_defs, flushed, sorted_grouped_defs, group_no, exports,
                 dest, runs, prev>>
  /\ UNCHANGED <<indent_vars, subst_vars>>

\* Lines 339-351.
WriteIndexDTs ==
  /\ pc = "write"
  /\ \E extra_header \in ExtraHeaders :
       dest' = [written |-> TRUE,
                content |-> DEFAULT_TYPE_DEF_HEADER \o extra_header \o dts]
  /\ pc' = "done"
  /\ UNCHANGED <<tmp_file, line_no, defs, def_no, namespace_grouped,
                 class_defs, flushed, sorted_grouped_defs, group_no, dts,
                 exports, runs, prev>>
  /\ UNCHANGED <<indent_vars, subst_vars>>

\* The next build of the same crate finds the same file.
Rebuild ==
  /\ pc = "done" /\ runs < MaxRuns
  /\ prev' = [ran |-> TRUE, sorted |-> defs, dts |-> dts, exports |-> exports]
  /\ runs' = runs + 1
  /\ pc' = "start"
  /\ line_no' = 0 /\ defs' = << >> /\ def_no' = 0
  /\ sorted_grouped_defs' = << >> /\ group_no' = 0
  /\ dts' = << >> /\ exports' = << >>
  /\ UNCHANGED <<tmp_file, namespace_grouped, class_defs, flushed, dest>>
  /\ UNCHANGED <<indent_vars, subst_vars>>

Build ==
  \/ Start
  \/ ReadNextLine
  \/ SortDefs
  \/ PreprocessNextDef
  \/ FlushNextClassDef
  \/ DrainAndSortGroups
  \/ RenderNextGroup
  \/ Substitute
  \/ WriteIndexDTs

Next == Build

NextRebuild == Build \/ Rebuild

\* correct_string_indent, one line of src.lines() at a time.
IndentNextLine ==
  /\ src_no < Len(Lines(src))
  /\ LET st == IndentLine(bracket_depth, result, Lines(src)[src_no + 1],
                          indent)
     IN /\ bracket_depth' = st.bracket_depth
        /\ result' = st.result
  /\ src_no' = src_no + 1
  /\ UNCHANGED <<src, indent>>
  /\ UNCHANGED <<asm_vars, subst_vars>>

\* The substitution and header pass on a body, as process_type_def runs it.
FirstPass ==
  /\ passes = << >>
  /\ passes' = <<SubstituteAndPrepend(body, caller_header)>>
  /\ UNCHANGED <<body, caller_header>>
  /\ UNCHANGED <<asm_vars, indent_vars>>

\* The pass again, on the text the first one returned.
SecondPass ==
  /\ Len(passes) = 1
  /\ passes' = Append(passes, SubstituteAndPrepend(passes[1], << >>))
  /\ UNCHANGED <<body, caller_header>>
  /\ UNCHANGED <<asm_vars, indent_vars>>

NextIndent == IndentNextLine

NextSubst == FirstPass \/ SecondPass

Init == InitAsm(FilesOver(MergeLines, MaxLines))

InitExport == InitAsm(FilesOver(ExportLines, MaxExportLines))

InitRead == InitAsm(FilesOver(ReadLines, MaxReadLines))

InitNamespace == InitAsm(FilesOver(NamespaceLines, MaxLines))

InitIndent ==
  /\ AsmIdle /\ SubstIdle
  /\ src \in {JoinWith(ls, <<"\n">>) :
                ls \in SeqsUpTo(IndentInputLines, MaxSrcLines)}
  /\ indent \in IndentBases
  /\ bracket_depth = 0 /\ src_no = 0 /\ result = << >>

InitSubst ==
  /\ AsmIdle /\ IndentIdle
  /\ body \in SeqsUpTo(SubstTokens, MaxBodyLen)
  /\ caller_header \in CallerHeaders
  /\ passes = << >>

Spec == Init /\ [][Next]_vars

SpecRebuild == Init /\ [][NextRebuild]_vars

SpecExport == InitExport /\ [][Next]_vars

SpecRead == InitRead /\ [][Next]_vars

SpecNamespace == InitNamespace /\ [][Next]_vars

SpecIndent == InitIndent /\ [][NextIndent]_vars

SpecSubst == InitSubst /\ [][NextSubst]_vars

---------------------------------------------------------------------------
(* What the properties below speak of.                                     *)

\* The records of the file in stream order, as the reader decodes them.
RECURSIVE DecodedRecords(_)
DecodedRecords(lines) ==
  IF lines = << >> THEN << >>
  ELSE (IF Head(lines).io_ok /\ DecodeOk(FormatLine(Head(lines)))
        THEN <<FormatLine(Head(lines)).json>> ELSE << >>)
         \o DecodedRecords(Tail(lines))

InputStream == DecodedRecords(tmp_file.lines)

\* preprocess_type_def has returned and its groups are sorted by key.
Grouped == pc \in {"render", "write", "done"}

\* process_type_def has returned (dts, exports).
Assembled == pc \in {"write", "done"}

StructsNamed(stream, name) ==
  {i \in 1..Len(stream) : stream[i].kind = "Struct" /\ stream[i].name = name}

IsImplOf(r, name) == r.kind = "Impl" /\ r.name = name

\* A def followed by the defs of impl records, a newline before each one
\* that follows a non-empty text.
RECURSIVE AppendImpls(_, _)
AppendImpls(def, impls) ==
  IF impls = << >> THEN def
  ELSE AppendImpls((IF def # << >> THEN def \o <<"\n">> ELSE def)
                     \o Head(impls).def,
                   Tail(impls))

\* Every arrangement of the elements of a sequence.
Arrangements(v) ==
  {[i \in 1..Len(v) |-> v[p[i]]] : p \in Permutations(1..Len(v))}

RemoveAt(v, i) == SubSeq(v, 1, i - 1) \o SubSeq(v, i + 1, Len(v))

---------------------------------------------------------------------------
(* C1.  Struct-first ordering: in every namespace group that                *)
(* preprocess_type_def returns, every Struct record is placed before every  *)
(* record of another kind.                                                  *)
C1_StructFirst ==
  Grouped =>
    \A g \in 1..Len(sorted_grouped_defs) :
      LET ds == sorted_grouped_defs[g].defs
      IN \A i, j \in 1..Len(ds) :
           (ds[i].kind = "Struct" /\ ds[j].kind # "Struct") => i < j

---------------------------------------------------------------------------
(* C2.  Determinism: a second run of process_type_def on the same file      *)
(* returns the text and the export list the first run returned.             *)
C2_Determinism ==
  (prev.ran /\ Assembled) => (dts = prev.dts /\ exports = prev.exports)

---------------------------------------------------------------------------
(* C3.  Impl merging in stream order: a Struct record that is the only one  *)
(* of its name and has impl records ends with its own def followed by the   *)
(* defs of those impl records in their order in the input stream, joined    *)
(* by newlines, wherever it stood among them.                               *)
C3_ImplsInStreamOrder ==
  Grouped =>
    \A i \in 1..Len(InputStream) :
      LET s == InputStream[i]
          impls == SelectSeq(InputStream, LAMBDA r : IsImplOf(r, s.name))
      IN (/\ s.kind = "Struct"
          /\ StructsNamed(InputStream, s.name) = {i}
          /\ impls # << >>)
         => \E g \in 1..Len(sorted_grouped_defs) :
              \E k \in 1..Len(sorted_grouped_defs[g].defs) :
                LET t == sorted_grouped_defs[g].defs[k]
                IN /\ t.kind = "Struct" /\ t.name = s.name
                   /\ t.def = AppendImpls(s.def, impls)

---------------------------------------------------------------------------
(* C4.  No Struct is lost: when no two Struct records of the stream share   *)
(* (namespace, name), every Struct record stands exactly once in the list   *)
(* of its own namespace group and in no other, and holds its own def        *)
(* followed by the defs of the impl records of its (namespace, name) only.  *)
C4_OneStructPerPair ==
  \A i, j \in 1..Len(InputStream) :
    (/\ InputStream[i].kind = "Struct" /\ InputStream[j].kind = "Struct"
     /\ InputStream[i].name = InputStream[j].name
     /\ InputStream[i].js_mod = InputStream[j].js_mod) => i = j

C4_Copies(group, s) ==
  {k \in 1..Len(group.defs) :
     /\ group.defs[k].kind = "Struct"
     /\ group.defs[k].name = s.name
     /\ group.defs[k].js_mod = s.js_mod}

C4_NoStructLost ==
  (Grouped /\ C4_OneStructPerPair) =>
    \A i \in 1..Len(InputStream) :
      LET s == InputStream[i]
          own == SelectSeq(InputStream,
                           LAMBDA r : IsImplOf(r, s.name)
                                        /\ r.js_mod = s.js_mod)
      IN s.kind = "Struct" =>
           /\ \E g \in 1..Len(sorted_grouped_defs) :
                sorted_grouped_defs[g].namespace = NamespaceOf(s)
           /\ \A g \in 1..Len(sorted_grouped_defs) :
                LET group == sorted_grouped_defs[g]
                IN IF group.namespace = NamespaceOf(s)
                   THEN /\ Cardinality(C4_Copies(group, s)) = 1
                        /\ \A k \in C4_Copies(group, s) :
                             group.defs[k].def \in
                               {AppendImpls(s.def, a) : a \in Arrangements(own)}
                   ELSE C4_Copies(group, s) = {}

---------------------------------------------------------------------------
(* C5.  Namespace group order: in the text process_type_def returns, every  *)
(* top-level declaration comes before every namespace block, and the        *)
(* namespace blocks stand in ascending order of their paths.                *)
C5_BlockStarts(text) ==
  {i \in 1..Len(text) :
     /\ text[i] = "namespace"
     /\ i > 2 /\ text[i - 2] = "export" /\ i + 2 <= Len(text)}

\* Top-level Fn and Struct declarations, and no others, say "declare".
C5_TopLevelDeclarations(text) == {i \in 1..Len(text) : text[i] = "declare"}

C5_NamespaceOrder ==
  Assembled =>
    /\ \A i \in C5_TopLevelDeclarations(dts) :
         \A j \in C5_BlockStarts(dts) : i < j
    /\ \A i, j \in C5_BlockStarts(dts) :
         i < j => StrCmp(dts[i + 2], dts[j + 2]) = "Less"

---------------------------------------------------------------------------
(* C6.  Malformed stream is fatal with no partial write: when a non-blank   *)
(* line of the file, after the strip of its prefix, fails to decode, the    *)
(* reader stops at the first such line, nothing past reading runs and       *)
(* index.d.ts is not written; index.d.ts is written only when every such    *)
(* line has decoded.                                                        *)
C6_Undecodable(raw) ==
  /\ raw.io_ok
  /\ ~LineIsEmpty(FormatLine(raw))
  /\ ~DecodeOk(FormatLine(raw))

C6_UndecodableLines ==
  {i \in 1..Len(tmp_file.lines) : C6_Undecodable(tmp_file.lines[i])}

C6_MalformedIsFatal ==
  /\ C6_UndecodableLines # {} =>
       /\ ~dest.written
       /\ pc \in {"start", "env_err", "read", "panicked"}
       /\ \A i \in C6_UndecodableLines : line_no < i
  /\ dest.written => C6_UndecodableLines = {}
  /\ pc = "panicked" => C6_UndecodableLines # {}

C6_Witness ==
  /\ pc = "panicked"
  /\ defs # << >>
  /\ line_no + 1 \in C6_UndecodableLines
  /\ ~dest.written

---------------------------------------------------------------------------
(* C7.  Orphan Impl is silently dropped: the text and the export list       *)
(* process_type_def returns for a stream with an impl record whose name no  *)
(* Struct record carries are a text and an export list it returns for the   *)
(* stream without that record.                                              *)
RECURSIVE C7_PreprocessAll(_, _, _)
C7_PreprocessAll(grouped, classes, ds) ==
  IF ds = << >> THEN [namespace_grouped |-> grouped, class_defs |-> classes]
  ELSE LET st == PreprocessDef(grouped, classes, Head(ds))
       IN C7_PreprocessAll(st.namespace_grouped, st.class_defs, Tail(ds))

RECURSIVE C7_FlushAll(_, _, _)
C7_FlushAll(grouped, classes, order) ==
  IF order = << >> THEN grouped
  ELSE C7_FlushAll(FlushClassDef(grouped, classes[Head(order)]), classes,
                   Tail(order))

RECURSIVE C7_RenderAll(_)
C7_RenderAll(groups) ==
  IF groups = << >> THEN [dts |-> << >>, exports |-> << >>]
  ELSE LET first == RenderGroup(Head(groups), TRUE)
           rest == C7_RenderAll(Tail(groups))
       IN [dts |-> first.dts \o rest.dts,
           exports |-> first.exports \o rest.exports]

C7_Orders(keys) ==
  {o \in [1..Cardinality(keys) -> keys] :
     \A i, j \in DOMAIN o : o[i] = o[j] => i = j}

\* Every (text, export list) process_type_def can return for a stream.
C7_Outcomes(stream) ==
  UNION {
    LET st == C7_PreprocessAll(EmptyMap, EmptyMap, sorted)
    IN {LET out == C7_RenderAll(DrainSorted(
                     C7_FlushAll(st.namespace_grouped, st.class_defs, o)))
        IN <<SubstituteAndPrepend(out.dts, << >>), out.exports>> :
          o \in C7_Orders(DOMAIN st.class_defs)} :
    sorted \in SortUnstable(stream)}

C7_OrphanImplDropped ==
  Assembled =>
    \A i \in 1..Len(InputStream) :
      (/\ InputStream[i].kind = "Impl"
       /\ StructsNamed(InputStream, InputStream[i].name) = {})
      => <<dts, exports>> \in C7_Outcomes(RemoveAt(InputStream, i))

---------------------------------------------------------------------------
(* C8.  Export list content: after each rendered group the export list      *)
(* holds, in rendering order, for every record of the top-level group of    *)
(* kind Const, Enum, Fn, Struct or StringEnum its name, followed by its     *)
(* original_name when that is present and differs, and for every other      *)
(* group its namespace once; Interface records and the members of           *)
(* namespaces add nothing.                                                  *)
C8_Names(r) ==
  IF r.kind \in {"Interface", "Impl"} THEN << >>
  ELSE IF r.original_name = None \/ r.original_name = r.name THEN <<r.name>>
  ELSE <<r.name, r.original_name>>

C8_GroupNames(group) ==
  IF group.namespace # TOP_LEVEL_NAMESPACE THEN <<group.namespace>>
  ELSE Flatten([k \in 1..Len(group.defs) |-> C8_Names(group.defs[k])])

C8_ExportList ==
  Grouped =>
    exports = Flatten([g \in 1..group_no |->
                         C8_GroupNames(sorted_grouped_defs[g])])

C8_Witness ==
  /\ pc = "done"
  /\ \E g \in 1..Len(sorted_grouped_defs) :
       /\ sorted_grouped_defs[g].namespace = TOP_LEVEL_NAMESPACE
       /\ \E k \in 1..Len(sorted_grouped_defs[g].defs) :
            sorted_grouped_defs[g].defs[k].kind = "Interface"
       /\ \E k \in 1..Len(sorted_grouped_defs[g].defs) :
            /\ sorted_grouped_defs[g].defs[k].kind = "Struct"
            /\ sorted_grouped_defs[g].defs[k].original_name = "A"
            /\ sorted_grouped_defs[g].defs[k].name = "B"
  /\ exports = <<"B", "A">>

---------------------------------------------------------------------------
(* C9.  Substitution idempotence, as claimed: the pass applied to its own   *)
(* output changes nothing.                                                  *)
C9_Idempotent == Len(passes) = 2 => passes[2] = passes[1]

(* C9 as the code has it: with the empty caller header, the second          *)
(* application changes nothing when the body holds neither the whole word   *)
(* AbortSignal nor "ExternalObject<" (Buffer is rewritten once, the blank   *)
(* lines are added once); a text that holds AbortSignal or                  *)
(* "ExternalObject<" gets its header fragment again.                        *)
C9_IdempotentWithoutMarkers ==
  Len(passes) = 2 =>
    /\ (/\ caller_header = << >>
        /\ ~IsMatch(body, "AbortSignal")
        /\ ~ContainsExternalObject(body)) => passes[2] = passes[1]
    /\ (IsMatch(passes[1], "AbortSignal")
          \/ ContainsExternalObject(passes[1])) => passes[2] # passes[1]

C9_Witness ==
  /\ Len(passes) = 2
  /\ caller_header = << >>
  /\ body = <<"Buffer", " ", "Buffer">>
  /\ passes[1] = <<"\n", "\n", "ArrayBuffer", " ", "ArrayBuffer">>
  /\ passes[2] = passes[1]

---------------------------------------------------------------------------
(* C10.  Brace-depth indentation: after every line, the text and the depth  *)
(* are those of the rule: a blank line is emitted empty; a line ending in   *)
(* '{' gets base + 2 * depth and raises the depth; a line ending in '}'     *)
(* lowers the depth (not below 0) and gets base + 2 * depth; any other line *)
(* gets base + 2 * depth; a line starting with '*' gets one space more.     *)
C10_Line(depth, text, raw_line, base) ==
  LET line == Trim(raw_line)
  IN IF line = << >>
       THEN [bracket_depth |-> depth, result |-> text \o <<"\n">>]
     ELSE
       LET opening == line[Len(line)] = "{"
           closing == line[Len(line)] = "}"
           after == IF opening THEN depth + 1
                    ELSE IF closing THEN (IF depth > 0 THEN depth - 1 ELSE 0)
                    ELSE depth
           computed == IF opening THEN base + 2 * depth ELSE base + 2 * after
           extra == IF line[1] \in {"*", "*/"} THEN 1 ELSE 0
       IN [bracket_depth |-> after,
           result |-> text \o Spaces(computed + extra) \o line \o <<"\n">>]

RECURSIVE C10_Lines(_, _, _, _)
C10_Lines(depth, text, lines, base) ==
  IF lines = << >> THEN [bracket_depth |-> depth, result |-> text]
  ELSE LET st == C10_Line(depth, text, Head(lines), base)
       IN C10_Lines(st.bracket_depth, st.result, Tail(lines), base)

C10_BraceDepthIndent ==
  LET claimed == C10_Lines(0, << >>, SubSeq(Lines(src), 1, src_no), indent)
  IN result = claimed.result /\ bracket_depth = claimed.bracket_depth

====
